---- MODULE Spec2Model ----
(***************************************************************************)
(* Model of the phonetic name matcher (package phonetic_match).            *)
(*                                                                         *)
(* Strings are sequences of one-character strings.  Scores are exact       *)
(* rationals <<numerator, denominator>> in lowest terms; the program       *)
(* computes them in IEEE doubles, which agree with the rationals on every  *)
(* comparison the program makes on the names of this model (1.0 is         *)
(* reached exactly, and 0.85 + 0.15 rounds to 1.0).                        *)
(***************************************************************************)
EXTENDS Integers, Sequences, FiniteSets, TLC

VARIABLES
    pc,                 \* position of the current invocation
    target_name,        \* match(): argument target_name
    reference_name,     \* match(): argument reference_name
    heap_desc,          \* allocator layout of this invocation: id() order
    t_units,            \* match(): t_units
    r_units,            \* match(): r_units
    candidates,         \* match(): candidates / solver argument
    cursor,             \* solve_greedy_assignment(): position of `for cand`
    taken_target_ids,   \* solve_greedy_assignment(): taken_target_ids
    taken_ref_ids,      \* solve_greedy_assignment(): taken_ref_ids
    matches,            \* solve_greedy_assignment(): matches
    result,             \* what the invocation returned
    score_arg,          \* get_label(): argument score
    similarity_label,   \* what get_label() returned
    remembered,         \* the record of one earlier invocation
    call_args           \* arguments of a function invoked on its own

vars == <<pc, target_name, reference_name, heap_desc, t_units, r_units,
          candidates, cursor, taken_target_ids, taken_ref_ids, matches,
          result, score_arg, similarity_label, remembered, call_args>>

(***************************************************************************)
(* Characters                                                              *)
(***************************************************************************)
LowerAlpha == <<"a","b","c","d","e","f","g","h","i","j","k","l","m",
                "n","o","p","q","r","s","t","u","v","w","x","y","z">>

UpperAlpha == <<"A","B","C","D","E","F","G","H","I","J","K","L","M",
                "N","O","P","Q","R","S","T","U","V","W","X","Y","Z">>

Range(s) == {s[i] : i \in DOMAIN s}

IsLowerCh(c) == c \in Range(LowerAlpha)

IsUpperCh(c) == c \in Range(UpperAlpha)

\* [a-zA-Z]
IsAlphaCh(c) == IsLowerCh(c) \/ IsUpperCh(c)

\* \s
IsSpaceCh(c) == c \in {" ", "\t", "\n"}

IndexIn(c, table) == CHOOSE i \in DOMAIN table : table[i] = c

\* str.lower() on one character
LowerCh(c) == IF IsUpperCh(c) THEN LowerAlpha[IndexIn(c, UpperAlpha)] ELSE c

\* str.upper() on one character
UpperCh(c) == IF IsLowerCh(c) THEN UpperAlpha[IndexIn(c, LowerAlpha)] ELSE c

Lower(s) == [i \in DOMAIN s |-> LowerCh(s[i])]

Upper(s) == [i \in DOMAIN s |-> UpperCh(s[i])]

\* str.capitalize(): first character upper-cased, the rest lower-cased
Capitalize(s) == [i \in DOMAIN s |-> IF i = 1 THEN UpperCh(s[i]) ELSE LowerCh(s[i])]

\* Python's None, distinct from every string
None == <<"<None>">>

\* truth value of an Optional[str]: None and "" are both false
Truthy(c) == c # None /\ c # <<>>

(***************************************************************************)
(* NameProcessor                                                           *)
(***************************************************************************)
\* re.sub(r"\s+", " ", text): every maximal whitespace run becomes one space
RECURSIVE CollapseSpaces(_)
CollapseSpaces(s) ==
    IF s = <<>> THEN <<>>
    ELSE IF IsSpaceCh(Head(s))
         THEN IF Len(s) > 1 /\ IsSpaceCh(s[2])
              THEN CollapseSpaces(Tail(s))
              ELSE <<" ">> \o CollapseSpaces(Tail(s))
         ELSE <<Head(s)>> \o CollapseSpaces(Tail(s))

\* str.strip()
RECURSIVE LStrip(_)
LStrip(s) == IF s # <<>> /\ IsSpaceCh(Head(s)) THEN LStrip(Tail(s)) ELSE s

RECURSIVE RStrip(_)
RStrip(s) ==
    IF s # <<>> /\ IsSpaceCh(s[Len(s)]) THEN RStrip(SubSeq(s, 1, Len(s) - 1)) ELSE s

Strip(s) == RStrip(LStrip(s))

normalize_text(text) == Strip(CollapseSpaces(Lower(text)))

\* re.findall(r"[a-zA-Z]+", text); cur is the run being read
RECURSIVE AlphaRuns(_, _)
AlphaRuns(s, cur) ==
    IF s = <<>> THEN (IF cur = <<>> THEN <<>> ELSE <<cur>>)
    ELSE IF IsAlphaCh(Head(s))
         THEN AlphaRuns(Tail(s), Append(cur, Head(s)))
         ELSE (IF cur = <<>> THEN <<>> ELSE <<cur>>) \o AlphaRuns(Tail(s), <<>>)

extract_alpha_tokens(text) == AlphaRuns(text, <<>>)

RECURSIVE DedupFrom(_, _)
DedupFrom(items, seen) ==
    IF items = <<>> THEN <<>>
    ELSE IF Head(items) \in seen
         THEN DedupFrom(Tail(items), seen)
         ELSE <<Head(items)>> \o DedupFrom(Tail(items), seen \cup {Head(items)})

remove_duplicates_preserve_order(items) == DedupFrom(items, {})

MUHAMMAD_VARIANTS ==
    { <<"m","d">>, <<"m","o","h","d">>, <<"m","u","h","d">>,
      <<"m","o","h","a","m">>,
      <<"m","u","h","a","m","m","a","d">>, <<"m","o","h","a","m","m","a","d">>,
      <<"m","u","h","a","m","m","e","d">>, <<"m","o","h","a","m","m","e","d">>,
      <<"m","o","h","a","m","a","d">>, <<"m","o","h","a","m","e","d">> }

STANDARD_MUHAMMAD == <<"M","u","h","a","m","m","a","d">>

\* no token recognised as a variant
normalize_muhammad_Never(token) == None

normalize_muhammad(token) ==
    IF token \in MUHAMMAD_VARIANTS THEN STANDARD_MUHAMMAD ELSE None

RECURSIVE SegmentsOf(_)
SegmentsOf(tokens) ==
    IF tokens = <<>> THEN <<>>
    ELSE LET token == Head(tokens)
             normalized == normalize_muhammad(token)
         IN  IF Truthy(normalized)
             THEN <<normalized>> \o SegmentsOf(Tail(tokens))
             ELSE IF Len(token) > 1
                  THEN <<Capitalize(token)>> \o SegmentsOf(Tail(tokens))
                  ELSE SegmentsOf(Tail(tokens))

extract_name_segments(tokens) == remove_duplicates_preserve_order(SegmentsOf(tokens))

\* the loop without the flush of the run open at the end of the tokens
RECURSIVE InitialsLoop_OpenRunDropped(_, _, _, _)
InitialsLoop_OpenRunDropped(tokens, buffer, ni_joined, ni_individual) ==
    IF tokens = <<>>
    THEN <<ni_joined, ni_individual>>
    ELSE LET token == Head(tokens) IN
         IF Len(token) = 1
         THEN InitialsLoop_OpenRunDropped(Tail(tokens), buffer \o Upper(token),
                                          ni_joined,
                                          Append(ni_individual, Upper(token)))
         ELSE InitialsLoop_OpenRunDropped(Tail(tokens), <<>>,
                                          (IF Len(buffer) >= 1
                                           THEN Append(ni_joined, buffer)
                                           ELSE ni_joined),
                                          ni_individual)

\* the loop of extract_initials: joined runs and individual initials
RECURSIVE InitialsLoop(_, _, _, _)
InitialsLoop(tokens, buffer, ni_joined, ni_individual) ==
    IF tokens = <<>>
    THEN <<(IF Len(buffer) >= 1 THEN Append(ni_joined, buffer) ELSE ni_joined),
           ni_individual>>
    ELSE LET token == Head(tokens) IN
         IF Len(token) = 1
         THEN InitialsLoop(Tail(tokens), buffer \o Upper(token), ni_joined,
                           Append(ni_individual, Upper(token)))
         ELSE InitialsLoop(Tail(tokens), <<>>,
                           (IF Len(buffer) >= 1 THEN Append(ni_joined, buffer)
                                                ELSE ni_joined),
                           ni_individual)

extract_initials(tokens) ==
    LET r == InitialsLoop(tokens, <<>>, <<>>, <<>>)
    IN  <<remove_duplicates_preserve_order(r[1]),
          remove_duplicates_preserve_order(r[2])>>

process_name(name) ==
    LET tokens == extract_alpha_tokens(normalize_text(name))
    IN  [NS |-> extract_name_segments(tokens), NI |-> extract_initials(tokens)]

(***************************************************************************)
(* Exact rationals <<n, d>>, d > 0, in lowest terms                        *)
(***************************************************************************)
RECURSIVE GCD(_, _)
GCD(a, b) == IF b = 0 THEN a ELSE GCD(b, a % b)

Rat(n, d) == LET g == GCD(n, d) IN IF n = 0 THEN <<0, 1>> ELSE <<n \div g, d \div g>>

RZero == <<0, 1>>

ROne == <<1, 1>>

RAdd(a, b) ==
    LET g == GCD(a[2], b[2])
    IN  Rat(a[1] * (b[2] \div g) + b[1] * (a[2] \div g), (a[2] \div g) * b[2])

RMul(a, b) ==
    LET x == Rat(a[1], b[2])
        y == Rat(b[1], a[2])
    IN  <<x[1] * y[1], x[2] * y[2]>>

RLess(a, b) == a[1] * b[2] < b[1] * a[2]

\* the exception a float division by zero raises, in place of a value
ZeroDivisionError == <<"ZeroDivisionError">>

\* a / k for an integer k
RDivInt(a, k) == IF k = 0 THEN ZeroDivisionError ELSE Rat(a[1], a[2] * k)

(***************************************************************************)
(* rapidfuzz.distance.JaroWinkler.similarity                               *)
(***************************************************************************)
Max(a, b) == IF a >= b THEN a ELSE b

Min(a, b) == IF a <= b THEN a ELSE b

\* the P positions flagged so far, in the order of the T characters that
\* took them: each T[j] takes the lowest unflagged equal P[i], |i - j| <= Bound
RECURSIVE FlagSimilar(_, _, _, _, _)
FlagSimilar(P, T, Bound, j, flagged) ==
    IF j > Len(T) THEN flagged
    ELSE LET free == {i \in DOMAIN P : /\ P[i] = T[j]
                                       /\ i >= j - Bound /\ i <= j + Bound
                                       /\ i \notin Range(flagged)}
         IN  IF free = {}
             THEN FlagSimilar(P, T, Bound, j + 1, flagged)
             ELSE FlagSimilar(P, T, Bound, j + 1,
                      Append(flagged, CHOOSE i \in free : \A k \in free : i <= k))

RECURSIVE SortedSeq(_)
SortedSeq(S) ==
    IF S = {} THEN <<>>
    ELSE LET m == CHOOSE x \in S : \A y \in S : x <= y
         IN  <<m>> \o SortedSeq(S \ {m})

\* flagged characters of T and of P, each in its own order, that differ
CountTranspositions(P, flagged) ==
    LET inP == SortedSeq(Range(flagged))
    IN  Cardinality({k \in DOMAIN flagged : P[flagged[k]] # P[inP[k]]})

Jaro(P, T) ==
    IF P = <<>> /\ T = <<>> THEN ROne
    ELSE IF P = <<>> \/ T = <<>> THEN RZero
    ELSE IF Len(P) = 1 /\ Len(T) = 1 THEN (IF P = T THEN ROne ELSE RZero)
    ELSE LET Bound == (Max(Len(P), Len(T)) \div 2) - 1
             flagged == FlagSimilar(P, T, Bound, 1, <<>>)
             m == Len(flagged)
             t == CountTranspositions(P, flagged) \div 2
         IN  IF m = 0 THEN RZero
             ELSE Rat(m * m * Len(T) + m * m * Len(P) + (m - t) * Len(P) * Len(T),
                      3 * Len(P) * Len(T) * m)

RECURSIVE CommonPrefix(_, _)
CommonPrefix(a, b) ==
    IF a # <<>> /\ b # <<>> /\ Head(a) = Head(b)
    THEN 1 + CommonPrefix(Tail(a), Tail(b))
    ELSE 0

\* prefix_weight 0.1, at most 4 prefix characters, only above 0.7
JaroWinkler(s1, s2) ==
    LET Sim == Jaro(s1, s2)
        prefix == Min(CommonPrefix(s1, s2), 4)
    IN  IF RLess(<<7, 10>>, Sim)
        THEN RAdd(Sim, RMul(<<prefix, 10>>, RAdd(ROne, <<-Sim[1], Sim[2]>>)))
        ELSE Sim

(***************************************************************************)
(* metaphone.doublemetaphone, the rules of the letters A B D E G H I J K L *)
(* M N O R S T U W Y.  Positions are those of the library: the word is     *)
(* upper-cased and padded with two '-' before and five ' ' after, `first`  *)
(* is 2 and positions count from 0.                                        *)
(***************************************************************************)
first == 2

Pad(word) == <<"-", "-">> \o Upper(word) \o <<" ", " ", " ", " ", " ">>

\* st[p]
At(st, p) == st[p + 1]

\* st[a:b]
Sl(st, a, b) == SubSeq(st, a + 1, b)

vowels == {"A", "E", "I", "O", "U", "Y"}

Contains(w, c) == \E i \in DOMAIN w : w[i] = c

HasSub(w, sub) ==
    \E i \in 1..(Len(w) - Len(sub) + 1) : SubSeq(w, i, i + Len(sub) - 1) = sub

is_slavo_germanic(w) ==
    \/ Contains(w, "W") \/ Contains(w, "K")
    \/ HasSub(w, <<"C","Z">>) \/ HasSub(w, <<"W","I","T","Z">>)

\* the words whose every letter takes a rule modelled below
DMSupported(word) ==
    LET w == Upper(word)
    IN  /\ \A i \in DOMAIN w :
              w[i] \in vowels \cup {"B","D","G","H","J","K","L","M","N","R","S","T","W"}
        /\ ~HasSub(w, <<"J","O","S","E">>)
        /\ ~HasSub(w, <<"L","L">>)
        /\ \A i \in DOMAIN w :
              /\ w[i] = "G" =>
                    /\ i < Len(w) => w[i + 1] \notin {"H", "N", "E", "I", "Y", "L"}
                    /\ i > 1 /\ i + 1 < Len(w) => SubSeq(w, i - 1, i + 2) \notin
                                   {<<"A","G","G","I">>, <<"O","G","G","I">>}
              /\ w[i] = "S" => i = 1 /\ Len(w) > 1 /\ w[2] \in {"M", "N", "L", "W"}

\* nxt of one step: <<primary, secondary, advance>>
DMNext(st, pos, last, slavo) ==
    LET ch == At(st, pos)
        nx == At(st, pos + 1)
        pv == At(st, pos - 1)
        adv(c) == IF nx = c THEN 2 ELSE 1
    IN  CASE ch \in vowels ->
               IF pos = first THEN <<"A", "A", 1>> ELSE <<"", "", 1>>
          [] ch = "B" -> <<"P", "P", adv("B")>>
          [] ch = "D" ->
               IF Sl(st, pos, pos + 2) = <<"D","G">>
               THEN IF At(st, pos + 2) \in {"I", "E", "Y"}
                    THEN <<"J", "J", 3>> ELSE <<"TK", "TK", 2>>
               ELSE IF Sl(st, pos, pos + 2) \in {<<"D","T">>, <<"D","D">>}
                    THEN <<"T", "T", 2>> ELSE <<"T", "T", 1>>
          [] ch = "G" -> <<"K", "K", adv("G")>>
          [] ch = "H" ->
               IF (pos = first \/ pv \in vowels) /\ nx \in vowels
               THEN <<"H", "H", 2>> ELSE <<"", "", 1>>
          [] ch = "J" ->
               IF pos = first THEN <<"J", "A", adv("J")>>
               ELSE IF pv \in vowels /\ ~slavo /\ nx \in {"A", "O"}
                    THEN <<"J", "H", adv("J")>>
               ELSE IF pos = last THEN <<"J", " ", adv("J")>>
               ELSE IF /\ nx \notin {"L","T","K","S","N","M","B","Z"}
                       /\ pv \notin {"S","K","L"}
                    THEN <<"J", "J", adv("J")>>
               ELSE <<"", "", adv("J")>>
          [] ch = "K" -> <<"K", "K", adv("K")>>
          [] ch = "L" -> <<"L", "L", 1>>
          [] ch = "M" ->
               IF \/ /\ Sl(st, pos + 1, pos + 4) = <<"U","M","B">>
                     /\ (pos + 1 = last \/ Sl(st, pos + 2, pos + 4) = <<"E","R">>)
                  \/ nx = "M"
               THEN <<"M", "M", 2>> ELSE <<"M", "M", 1>>
          [] ch = "N" -> <<"N", "N", adv("N")>>
          [] ch = "R" ->
               IF /\ pos = last /\ ~slavo
                  /\ Sl(st, pos - 2, pos) = <<"I","E">>
                  /\ Sl(st, pos - 4, pos - 2) \notin {<<"M","E">>, <<"M","A">>}
               THEN <<"", "R", adv("R")>> ELSE <<"R", "R", adv("R")>>
          [] ch = "S" -> <<"S", "X", 1>>
          [] ch = "T" ->
               IF Sl(st, pos, pos + 4) = <<"T","I","O","N">> THEN <<"X", "X", 3>>
               ELSE IF Sl(st, pos, pos + 3) \in {<<"T","I","A">>, <<"T","C","H">>}
                    THEN <<"X", "X", 3>>
               ELSE IF \/ Sl(st, pos, pos + 2) = <<"T","H">>
                       \/ Sl(st, pos, pos + 3) = <<"T","T","H">>
                    THEN IF \/ Sl(st, pos + 2, pos + 4) \in {<<"O","M">>, <<"A","M">>}
                            \/ Sl(st, first, first + 4) \in
                                   {<<"V","O","N"," ">>, <<"V","A","N"," ">>}
                            \/ Sl(st, first, first + 3) = <<"S","C","H">>
                         THEN <<"T", "T", 2>> ELSE <<"0", "T", 2>>
               ELSE IF nx \in {"T", "D"} THEN <<"T", "T", 2>>
               ELSE <<"T", "T", 1>>
          [] ch = "W" ->
               IF Sl(st, pos, pos + 2) = <<"W","R">> THEN <<"R", "R", 2>>
               ELSE IF pos = first /\ (nx \in vowels \/ nx = "H")
                    THEN IF nx \in vowels THEN <<"A", "F", 1>> ELSE <<"A", "A", 1>>
               ELSE IF \/ pos = last /\ pv \in vowels
                       \/ Sl(st, pos - 1, pos + 4) \in
                              {<<"E","W","S","K","I">>, <<"E","W","S","K","Y">>,
                               <<"O","W","S","K","I">>, <<"O","W","S","K","Y">>}
                       \/ Sl(st, first, first + 3) = <<"S","C","H">>
                    THEN <<"", "F", 1>>
               ELSE IF Sl(st, pos, pos + 4) \in
                           {<<"W","I","C","Z">>, <<"W","I","T","Z">>}
                    THEN <<"TS", "FX", 4>>
               ELSE <<"", "", 1>>
          [] OTHER -> <<"", "", 1>>

\* a code letter group as characters
Chars(code) ==
    CASE code = "" -> <<>>
      [] code = "TK" -> <<"T", "K">>
      [] code = "TS" -> <<"T", "S">>
      [] code = "FX" -> <<"F", "X">>
      [] OTHER -> <<code>>

RECURSIVE DMLoop(_, _, _, _, _, _)
DMLoop(st, pos, last, slavo, pri, sec) ==
    IF pos > last THEN <<pri, sec>>
    ELSE LET nxt == DMNext(st, pos, last, slavo)
         IN  DMLoop(st, pos + nxt[3], last, slavo,
                    pri \o Chars(nxt[1]), sec \o Chars(nxt[2]))

\* (primary, secondary), the secondary "" when it equals the primary
doublemetaphone(word) ==
    LET st == Pad(word)
        last == first + Len(word) - 1
        start == IF Sl(st, first, first + 2) \in
                      {<<"G","N">>, <<"K","N">>, <<"P","N">>, <<"W","R">>, <<"P","S">>}
                 THEN first + 1 ELSE first
        codes == DMLoop(st, start, last, is_slavo_germanic(Upper(word)), <<>>, <<>>)
    IN  IF codes[1] = codes[2] THEN <<codes[1], <<>>>> ELSE codes

(***************************************************************************)
(* PhoneticEncoder                                                         *)
(***************************************************************************)
\* encode_segments: one TracedSegment per string, index counted from 0
encode_segments(segments) ==
    [i \in DOMAIN segments |->
        LET dm_codes == doublemetaphone(segments[i])
        IN  [original_text |-> segments[i],
             index |-> i - 1,
             primary_code |-> dm_codes[1],
             secondary_code |-> IF dm_codes[2] # <<>> THEN dm_codes[2] ELSE None]]

(***************************************************************************)
(* SimilarityEngine                                                        *)
(***************************************************************************)
\* weights that do not sum to 1
PHONETIC_WEIGHT_Low == <<4, 5>>

PHONETIC_WEIGHT == <<17, 20>>

WORD_SIM_WEIGHT == <<3, 20>>

SCORE_MULTIPLIER == 100

\* x * scale rounded to the nearest integer, halves to the even one
RoundHalfEven(x, scale) ==
    LET n == x[1] * scale
        quo == n \div x[2]
        rem == n % x[2]
    IN  IF 2 * rem > x[2] THEN quo + 1
        ELSE IF 2 * rem < x[2] THEN quo
        ELSE IF quo % 2 = 0 THEN quo ELSE quo + 1

\* str.replace(" ", "")
RECURSIVE RemoveSpaces(_)
RemoveSpaces(s) ==
    IF s = <<>> THEN <<>>
    ELSE IF Head(s) = " " THEN RemoveSpaces(Tail(s))
         ELSE <<Head(s)>> \o RemoveSpaces(Tail(s))

\* the four code pairs in the order the loop visits them
combinations(t_seg, r_seg) ==
    << <<t_seg.primary_code, r_seg.primary_code, "Primary-Primary">>,
       <<t_seg.primary_code, r_seg.secondary_code, "Primary-Secondary">>,
       <<t_seg.secondary_code, r_seg.primary_code, "Secondary-Primary">>,
       <<t_seg.secondary_code, r_seg.secondary_code, "Secondary-Secondary">> >>

\* the loop keeping the last combination that reaches the best score
RECURSIVE BestOf_LastWins(_, _)
BestOf_LastWins(combos, k) ==
    IF k = 0 THEN <<RZero, "None">>
    ELSE LET prev == BestOf_LastWins(combos, k - 1)
             c1 == combos[k][1]
             c2 == combos[k][2]
         IN  IF Truthy(c1) /\ Truthy(c2)
             THEN LET sim == JaroWinkler(c1, c2)
                  IN  IF RLess(RZero, sim) /\ ~RLess(sim, prev[1])
                      THEN <<sim, combos[k][3]>> ELSE prev
             ELSE prev

\* the loop over combinations: <<best_score, match_label>> after the k-th
RECURSIVE BestOf(_, _)
BestOf(combos, k) ==
    IF k = 0 THEN <<RZero, "None">>
    ELSE LET prev == BestOf(combos, k - 1)
             c1 == combos[k][1]
             c2 == combos[k][2]
         IN  IF Truthy(c1) /\ Truthy(c2)
             THEN LET sim == JaroWinkler(c1, c2)
                  IN  IF RLess(prev[1], sim) THEN <<sim, combos[k][3]>> ELSE prev
             ELSE prev

\* the labels of the combinations the loop compares (line 53 lets them by)
Compared(combos) ==
    {combos[k][3] : k \in {i \in 1..4 : Truthy(combos[i][1]) /\ Truthy(combos[i][2])}}

\* the literal similarity always taken from the two segments
word_sim_Segments(t_seg, r_seg, t_full_name, r_full_name) ==
    JaroWinkler(Lower(t_seg.original_text), Lower(r_seg.original_text))

\* the literal similarity of the perfect-match rule
word_sim(t_seg, r_seg, t_full_name, r_full_name) ==
    IF Truthy(t_full_name) /\ Truthy(r_full_name)
    THEN JaroWinkler(RemoveSpaces(normalize_text(t_full_name)),
                     RemoveSpaces(normalize_text(r_full_name)))
    ELSE JaroWinkler(Lower(t_seg.original_text), Lower(r_seg.original_text))

\* <<score, match type>>; the match type is the combination, whether the
\* weighting was applied, and the weighted score as printed with 4 decimals
calculate_pair_score(t_seg, r_seg, t_full_name, r_full_name) ==
    LET best == BestOf(combinations(t_seg, r_seg), 4)
    IN  IF best[1] = ROne
        THEN LET weighted_score ==
                     RAdd(RMul(best[1], PHONETIC_WEIGHT),
                          RMul(word_sim(t_seg, r_seg, t_full_name, r_full_name),
                               WORD_SIM_WEIGHT))
             IN  <<weighted_score,
                   [combination |-> best[2], weighted |-> TRUE,
                    shown |-> RoundHalfEven(weighted_score, 10000)]>>
        ELSE <<best[1], [combination |-> best[2], weighted |-> FALSE, shown |-> 0]>>

\* a sort that orders equal scores by the instances' id()
RECURSIVE SortCandidates_ById(_)
SortCandidates_ById(cands) ==
    IF cands = <<>> THEN <<>>
    ELSE LET n == Len(cands)
             c == cands[n]
             sorted == SortCandidates_ById(SubSeq(cands, 1, n - 1))
             k == Cardinality({i \in DOMAIN sorted :
                      \/ RLess(c.score, sorted[i].score)
                      \/ /\ sorted[i].score = c.score
                         /\ \/ sorted[i].t_seg.id < c.t_seg.id
                            \/ /\ sorted[i].t_seg.id = c.t_seg.id
                               /\ sorted[i].r_seg.id <= c.r_seg.id})
         IN  SubSeq(sorted, 1, k) \o <<c>> \o SubSeq(sorted, k + 1, Len(sorted))

\* candidates.sort(key = score, reverse = True): stable, equal scores keep
\* their order
RECURSIVE SortCandidates(_)
SortCandidates(cands) ==
    IF cands = <<>> THEN <<>>
    ELSE LET n == Len(cands)
             c == cands[n]
             sorted == SortCandidates(SubSeq(cands, 1, n - 1))
             k == Cardinality({i \in DOMAIN sorted : ~RLess(sorted[i].score, c.score)})
         IN  SubSeq(sorted, 1, k) \o <<c>> \o SubSeq(sorted, k + 1, Len(sorted))

(***************************************************************************)
(* Inputs                                                                  *)
(***************************************************************************)
\* "John Smith"
JohnSmith == <<"J","o","h","n"," ","S","m","i","t","h">>

\* "John Doe"
JohnDoe == <<"J","o","h","n"," ","D","o","e">>

\* "J Doe"
JDoe == <<"J"," ","D","o","e">>

\* "JK Rowling"
JKRowling == <<"J","K"," ","R","o","w","l","i","n","g">>

\* "Joanne Kathleen Rowling"
JoanneKathleenRowling ==
    <<"J","o","a","n","n","e"," ","K","a","t","h","l","e","e","n",
      " ","R","o","w","l","i","n","g">>

\* "Abu Bakar"
AbuBakar == <<"A","b","u"," ","B","a","k","a","r">>

\* "Abubakar"
Abubakar == <<"A","b","u","b","a","k","a","r">>

\* "Muhammad"
Muhammad == <<"M","u","h","a","m","m","a","d">>

\* "Md"
Md == <<"M","d">>

\* "Mohd"
Mohd == <<"M","o","h","d">>

\* "Muhd"
Muhd == <<"M","u","h","d">>

\* "Moham"
Moham == <<"M","o","h","a","m">>

\* "Mohammad"
Mohammad == <<"M","o","h","a","m","m","a","d">>

\* "Muhammed"
Muhammed == <<"M","u","h","a","m","m","e","d">>

\* "Mohammed"
Mohammed == <<"M","o","h","a","m","m","e","d">>

\* "Mohamad"
Mohamad == <<"M","o","h","a","m","a","d">>

\* "Mohamed"
Mohamed == <<"M","o","h","a","m","e","d">>

\* ""
EmptyName == <<>>

\* "123"
DigitsName == <<"1","2","3">>

\* " - 4."
PunctName == <<" ","-"," ","4",".">>

\* "  JOHN   smith "
ShoutedJohnSmith ==
    <<" "," ","J","O","H","N"," "," "," ","s","m","i","t","h"," ">>

\* "J. K. Rowling"
JDotKDotRowling == <<"J","."," ","K","."," ","R","o","w","l","i","n","g">>

\* "John john Smith"
JohnJohnSmith ==
    <<"J","o","h","n"," ","j","o","h","n"," ","S","m","i","t","h">>

\* "Joanne John"
JoanneJohn == <<"J","o","a","n","n","e"," ","J","o","h","n">>

\* "John"
John == <<"J","o","h","n">>

\* "H Smith"
HSmith == <<"H"," ","S","m","i","t","h">>

\* "Doe H Smith"
DoeHSmith == <<"D","o","e"," ","H"," ","S","m","i","t","h">>

\* "Doeh Smith"
DoehSmith == <<"D","o","e","h"," ","S","m","i","t","h">>

AliasNames ==
    {Muhammad, Md, Mohd, Muhd, Moham, Mohammad, Muhammed, Mohammed, Mohamad, Mohamed}

NoLetterNames == {EmptyName, DigitsName, PunctName}

Names ==
    {JohnSmith, JohnDoe, JDoe, JKRowling, JoanneKathleenRowling, AbuBakar, Abubakar,
     ShoutedJohnSmith, JDotKDotRowling, JohnJohnSmith, JoanneJohn,
     John, HSmith, DoeHSmith, DoehSmith}
    \cup AliasNames \cup NoLetterNames

\* the names of the invocations whose records are compared
HistoryNames == {JohnSmith, JohnDoe, JDoe, JoanneJohn, Md, EmptyName, John}

\* texts of single segments
Doe == <<"D", "o", "e">>

Joanne == <<"J","o","a","n","n","e">>

Smith == <<"S","m","i","t","h">>

Kathleen == <<"K","a","t","h","l","e","e","n">>

Katlen == <<"K","a","t","l","e","n">>

Aitch == <<"H">>

\* the segments calculate_pair_score is called on directly
PairWords == {John, Joanne, Doe, Smith, Kathleen, Katlen, Aitch}

PairSegments == {encode_segments(<<w>>)[1] : w \in PairWords}

\* the optional full names of a direct call: omitted, empty or given
PairFullNames == {None, EmptyName, JohnDoe, JDoe, ShoutedJohnSmith}

\* the token lists extract_initials is called on directly
TokenPool == {<<"a">>, <<"b">>, <<"c","d">>, <<>>}

\* longest token list handed to extract_initials directly
MaxTokens == 5

TokenLists == UNION {[1..n -> TokenPool] : n \in 0..MaxTokens}

\* get_label is applied to the scores k / LabelGrid, 0 <= k <= 100 * LabelGrid
LabelGrid == 20

\* longest candidate list handed to the solver directly
MaxCands == 3

\* number of segment instances the direct candidate lists draw from
MaxPool == 2

\* id() of the k-th LabeledSegment allocated by an invocation: the allocator
\* hands out increasing or decreasing addresses
HeapTop == 1000

IdOf(k, desc) == IF desc THEN HeapTop - k ELSE k

\* LabeledSegment(s, label) for each s, allocated after `before` others
Wrap(traced, label, before, desc) ==
    [i \in DOMAIN traced |->
        [segment |-> traced[i], label |-> label, id |-> IdOf(before + i, desc)]]

\* lines 60-81 of match(): the unit pool of one name
UnitsOf(name, before, desc) ==
    LET data == process_name(name)
        ns_traced == encode_segments(data.NS)
        ni_traced == encode_segments(data.NI[1])
    IN  Wrap(ns_traced, "[NS]", before, desc)
        \o Wrap(ni_traced, "[NI]", before + Len(ns_traced), desc)

\* the candidate loop of match(): target units outer, reference units inner
RECURSIVE CandidateLoop(_, _, _, _, _)
CandidateLoop(tu, ru, t_full, r_full, k) ==
    IF k = 0 THEN <<>>
    ELSE LET t == tu[((k - 1) \div Len(ru)) + 1]
             r == ru[((k - 1) % Len(ru)) + 1]
             sc == calculate_pair_score(t.segment, r.segment, t_full, r_full)
             rest == CandidateLoop(tu, ru, t_full, r_full, k - 1)
         IN  IF RLess(RZero, sc[1])
             THEN Append(rest, [t_seg |-> t, r_seg |-> r,
                                score |-> sc[1], match_type |-> sc[2]])
             ELSE rest

RECURSIVE SumSeq(_)
SumSeq(s) == IF s = <<>> THEN RZero ELSE RAdd(Head(s), SumSeq(Tail(s)))

\* sorted(scores, reverse = True) of rationals
RECURSIVE SortDesc(_)
SortDesc(s) ==
    IF s = <<>> THEN <<>>
    ELSE LET n == Len(s)
             sorted == SortDesc(SubSeq(s, 1, n - 1))
             k == Cardinality({i \in DOMAIN sorted : ~RLess(sorted[i], s[n])})
         IN  SubSeq(sorted, 1, k) \o <<s[n]>> \o SubSeq(sorted, k + 1, Len(sorted))

\* the aggregation averaging over the matched pairs
Aggregated_OverMatches(t_name, r_name, tu, ms) ==
    LET N == Len(tu)
        scores == SortDesc([i \in DOMAIN ms |-> RMul(ms[i].score, <<SCORE_MULTIPLIER, 1>>)])
        top_n_scores == SubSeq(scores, 1, Min(N, Len(scores)))
        final_score == IF Len(top_n_scores) > 0
                       THEN RDivInt(SumSeq(top_n_scores), Len(top_n_scores))
                       ELSE RZero
    IN  [F1 |-> Rat(RoundHalfEven(final_score, 100), 100),
         N |-> N,
         Target |-> t_name,
         Reference |-> r_name,
         Matches |-> ms,
         AllScores |-> top_n_scores]

\* the aggregation without the test N > 0
Aggregated_Unguarded(t_name, r_name, tu, ms) ==
    LET N == Len(tu)
        scores == SortDesc([i \in DOMAIN ms |-> RMul(ms[i].score, <<SCORE_MULTIPLIER, 1>>)])
        top_n_scores == SubSeq(scores, 1, Min(N, Len(scores)))
        final_score == RDivInt(SumSeq(top_n_scores), N)
    IN  [F1 |-> IF final_score = ZeroDivisionError THEN ZeroDivisionError
                ELSE Rat(RoundHalfEven(final_score, 100), 100),
         N |-> N,
         Target |-> t_name,
         Reference |-> r_name,
         Matches |-> ms,
         AllScores |-> top_n_scores]

\* lines 112-137 of match(): the returned dictionary
Aggregated(t_name, r_name, tu, ms) ==
    LET N == Len(tu)
        scores == SortDesc([i \in DOMAIN ms |-> RMul(ms[i].score, <<SCORE_MULTIPLIER, 1>>)])
        top_n_scores == SubSeq(scores, 1, Min(N, Len(scores)))
        final_score == IF N > 0 THEN RDivInt(SumSeq(top_n_scores), N) ELSE RZero
    IN  [F1 |-> IF final_score = ZeroDivisionError THEN ZeroDivisionError
                ELSE Rat(RoundHalfEven(final_score, 100), 100),
         N |-> N,
         Target |-> t_name,
         Reference |-> r_name,
         Matches |-> ms,
         AllScores |-> top_n_scores]

(***************************************************************************)
(* ScoreNormalizer                                                         *)
(***************************************************************************)
RLeq(a, b) == ~RLess(b, a)

\* the labeler with the first band open at 30
get_label_OpenBand(score) ==
    IF RLess(score, <<30, 1>>) THEN "Names Do Not Match"
    ELSE IF RLess(<<30, 1>>, score) /\ RLeq(score, <<60, 1>>) THEN "Weak Match"
    ELSE IF RLess(<<60, 1>>, score) /\ RLeq(score, <<75, 1>>) THEN "Slightly Similar"
    ELSE IF RLess(<<75, 1>>, score) /\ RLeq(score, <<88, 1>>) THEN "Somewhat Similar"
    ELSE IF RLess(<<88, 1>>, score) /\ RLeq(score, <<94, 1>>) THEN "Highly Similar"
    ELSE IF RLess(<<94, 1>>, score) /\ RLess(score, <<100, 1>>) THEN "Almost Identical"
    ELSE IF score = <<100, 1>> THEN "Identical Name"
    ELSE "Unknown"

get_label(score) ==
    IF RLeq(score, <<30, 1>>) THEN "Names Do Not Match"
    ELSE IF RLess(<<30, 1>>, score) /\ RLeq(score, <<60, 1>>) THEN "Weak Match"
    ELSE IF RLess(<<60, 1>>, score) /\ RLeq(score, <<75, 1>>) THEN "Slightly Similar"
    ELSE IF RLess(<<75, 1>>, score) /\ RLeq(score, <<88, 1>>) THEN "Somewhat Similar"
    ELSE IF RLess(<<88, 1>>, score) /\ RLeq(score, <<94, 1>>) THEN "Highly Similar"
    ELSE IF RLess(<<94, 1>>, score) /\ RLess(score, <<100, 1>>) THEN "Almost Identical"
    ELSE IF score = <<100, 1>> THEN "Identical Name"
    ELSE "Unknown"

(***************************************************************************)
(* The matcher as a state machine                                          *)
(***************************************************************************)
NoRecord == [kept |-> FALSE]

Init ==
    /\ pc = "idle"
    /\ target_name = None
    /\ reference_name = None
    /\ heap_desc = FALSE
    /\ t_units = <<>>
    /\ r_units = <<>>
    /\ candidates = <<>>
    /\ cursor = 0
    /\ taken_target_ids = {}
    /\ taken_ref_ids = {}
    /\ matches = <<>>
    /\ result = None
    /\ score_arg = None
    /\ similarity_label = None
    /\ remembered = NoRecord
    /\ call_args = None

\* match(target_name, reference_name), lines 60-81: both names processed,
\* encoded and wrapped
MatchCall(names) ==
    /\ pc = "idle"
    /\ \E t \in names, r \in names, desc \in BOOLEAN :
          /\ target_name' = t
          /\ reference_name' = r
          /\ heap_desc' = desc
          /\ t_units' = UnitsOf(t, 0, desc)
          /\ r_units' = UnitsOf(r, Len(t_units'), desc)
    /\ pc' = "generate"
    /\ UNCHANGED <<candidates, cursor, taken_target_ids, taken_ref_ids, matches,
                   result, score_arg, similarity_label, remembered, call_args>>

\* match(), lines 84-98: every target unit against every reference unit
GenerateCandidates ==
    /\ pc = "generate"
    /\ candidates' = CandidateLoop(t_units, r_units, target_name, reference_name,
                                   Len(t_units) * Len(r_units))
    /\ pc' = "solve"
    /\ UNCHANGED <<target_name, reference_name, heap_desc, t_units, r_units, cursor,
                   taken_target_ids, taken_ref_ids, matches, result, score_arg,
                   similarity_label, remembered, call_args>>

\* a segment instance of the pool the direct candidate lists are built from
PoolUnit(k) ==
    [segment |-> encode_segments(<< <<"D","o","e">> >>)[1], label |-> "[NS]", id |-> k]

DirectScores == {<<1, 2>>, <<1, 1>>}

DirectCandidates ==
    [t_seg : {PoolUnit(k) : k \in 1..MaxPool},
     r_seg : {PoolUnit(k) : k \in 1..MaxPool},
     score : DirectScores,
     match_type : {[combination |-> "Primary-Primary", weighted |-> FALSE, shown |-> 0]}]

\* solve_greedy_assignment(candidates) called on its own
SolveCall ==
    /\ pc = "idle"
    /\ \E n \in 0..MaxCands : \E cands \in [1..n -> DirectCandidates] :
          candidates' = cands
    /\ pc' = "solve"
    /\ UNCHANGED <<target_name, reference_name, heap_desc, t_units, r_units, cursor,
                   taken_target_ids, taken_ref_ids, matches, result, score_arg,
                   similarity_label, remembered, call_args>>

\* solve_greedy_assignment, lines 99-105
SolveBegin ==
    /\ pc = "solve"
    /\ candidates' = SortCandidates(candidates)
    /\ taken_target_ids' = {}
    /\ taken_ref_ids' = {}
    /\ matches' = <<>>
    /\ cursor' = 1
    /\ pc' = "scan"
    /\ UNCHANGED <<target_name, reference_name, heap_desc, t_units, r_units,
                   result, score_arg, similarity_label, remembered, call_args>>

\* the scan looking at the target side only
Accepts_TargetOnly(cand, taken_t, taken_r) ==
    cand.t_seg.id \notin taken_t

\* whether the scan takes cand
Accepts(cand, taken_t, taken_r) ==
    cand.t_seg.id \notin taken_t /\ cand.r_seg.id \notin taken_r

\* solve_greedy_assignment, lines 107-124: one iteration of `for cand`
SolveStep ==
    /\ pc = "scan"
    /\ cursor <= Len(candidates)
    /\ LET cand == candidates[cursor]
       IN  IF Accepts(cand, taken_target_ids, taken_ref_ids)
           THEN /\ matches' = Append(matches,
                        [target_segment |-> cand.t_seg,
                         reference_segment |-> cand.r_seg,
                         score |-> cand.score,
                         match_type |-> cand.match_type])
                /\ taken_target_ids' = taken_target_ids \cup {cand.t_seg.id}
                /\ taken_ref_ids' = taken_ref_ids \cup {cand.r_seg.id}
           ELSE UNCHANGED <<matches, taken_target_ids, taken_ref_ids>>
    /\ cursor' = cursor + 1
    /\ UNCHANGED <<pc, target_name, reference_name, heap_desc, t_units, r_units,
                   candidates, result, score_arg, similarity_label, remembered, call_args>>

\* solve_greedy_assignment returns to a direct caller
SolveReturn ==
    /\ pc = "scan"
    /\ cursor > Len(candidates)
    /\ target_name = None
    /\ result' = [Matches |-> matches]
    /\ pc' = "solved"
    /\ UNCHANGED <<target_name, reference_name, heap_desc, t_units, r_units,
                   candidates, cursor, taken_target_ids, taken_ref_ids, matches,
                   score_arg, similarity_label, remembered, call_args>>

\* match(), lines 101-137: the solver has returned, the score is aggregated
\* and the dictionary returned
Aggregate ==
    /\ pc = "scan"
    /\ cursor > Len(candidates)
    /\ target_name # None
    /\ result' = Aggregated(target_name, reference_name, t_units, matches)
    /\ pc' = "done"
    /\ UNCHANGED <<target_name, reference_name, heap_desc, t_units, r_units,
                   candidates, cursor, taken_target_ids, taken_ref_ids, matches,
                   score_arg, similarity_label, remembered, call_args>>

\* what a caller can observe of a returned dictionary: no instance ids
Observable(res) ==
    [F1 |-> res.F1, N |-> res.N, AllScores |-> res.AllScores,
     Matches |-> [i \in DOMAIN res.Matches |->
                    [target_text |-> res.Matches[i].target_segment.segment.original_text,
                     reference_text |-> res.Matches[i].reference_segment.segment.original_text,
                     target_label |-> res.Matches[i].target_segment.label,
                     reference_label |-> res.Matches[i].reference_segment.label,
                     score |-> res.Matches[i].score,
                     match_type |-> res.Matches[i].match_type]]]

\* the caller keeps the record of this invocation for later comparison
Remember ==
    /\ pc = "done"
    /\ ~remembered.kept
    /\ remembered' = [kept |-> TRUE, Target |-> target_name,
                      Reference |-> reference_name, heap_desc |-> heap_desc,
                      between |-> FALSE, out |-> Observable(result)]
    /\ UNCHANGED <<pc, target_name, reference_name, heap_desc, t_units, r_units,
                   candidates, cursor, taken_target_ids, taken_ref_ids, matches,
                   result, score_arg, similarity_label, call_args>>

\* calculate_score of the API, lines 64-73: the label of the returned score
ApiRespond ==
    /\ pc = "done"
    /\ score_arg' = result.F1
    /\ similarity_label' = get_label(result.F1)
    /\ pc' = "responded"
    /\ UNCHANGED <<target_name, reference_name, heap_desc, t_units, r_units,
                   candidates, cursor, taken_target_ids, taken_ref_ids, matches,
                   result, remembered, call_args>>

\* ScoreNormalizer.get_label(score) called on its own
LabelCall ==
    /\ pc = "idle"
    /\ \E k \in 0..(100 * LabelGrid) :
          /\ score_arg' = Rat(k, LabelGrid)
          /\ similarity_label' = get_label(Rat(k, LabelGrid))
    /\ pc' = "labelled"
    /\ UNCHANGED <<target_name, reference_name, heap_desc, t_units, r_units,
                   candidates, cursor, taken_target_ids, taken_ref_ids, matches,
                   result, remembered, call_args>>

\* calculate_pair_score(t_seg, r_seg, t_full_name, r_full_name) called on
\* its own
PairScoreCall ==
    /\ pc = "idle"
    /\ \E t_seg \in PairSegments, r_seg \in PairSegments,
          t_full \in PairFullNames, r_full \in PairFullNames :
          LET sc == calculate_pair_score(t_seg, r_seg, t_full, r_full)
          IN  /\ call_args' = [t_seg |-> t_seg, r_seg |-> r_seg,
                                t_full_name |-> t_full, r_full_name |-> r_full]
              /\ result' = [score |-> sc[1], match_type |-> sc[2],
                            compared |-> Compared(combinations(t_seg, r_seg))]
    /\ pc' = "scored"
    /\ UNCHANGED <<target_name, reference_name, heap_desc, t_units, r_units,
                   candidates, cursor, taken_target_ids, taken_ref_ids, matches,
                   score_arg, similarity_label, remembered>>

\* extract_initials(tokens) called on its own
InitialsCall ==
    /\ pc = "idle"
    /\ \E tokens \in TokenLists :
          /\ call_args' = [tokens |-> tokens]
          /\ result' = [joined |-> extract_initials(tokens)[1],
                        individual |-> extract_initials(tokens)[2]]
    /\ pc' = "initialled"
    /\ UNCHANGED <<target_name, reference_name, heap_desc, t_units, r_units,
                   candidates, cursor, taken_target_ids, taken_ref_ids, matches,
                   score_arg, similarity_label, remembered>>

\* the invocation is over: its frame and its objects are released; the
\* allocator stays as the invocation left it.  A kept record notes that an
\* invocation with other arguments has run since.
Release ==
    /\ pc \in {"done", "solved", "responded", "labelled", "scored", "initialled"}
    /\ pc' = "idle"
    /\ target_name' = None
    /\ reference_name' = None
    /\ t_units' = <<>>
    /\ r_units' = <<>>
    /\ candidates' = <<>>
    /\ cursor' = 0
    /\ taken_target_ids' = {}
    /\ taken_ref_ids' = {}
    /\ matches' = <<>>
    /\ result' = None
    /\ score_arg' = None
    /\ similarity_label' = None
    /\ remembered' =
          IF /\ remembered.kept
             /\ target_name # None
             /\ <<target_name, reference_name>> #
                    <<remembered.Target, remembered.Reference>>
          THEN [remembered EXCEPT !.between = TRUE]
          ELSE remembered
    /\ call_args' = None
    /\ UNCHANGED heap_desc

Next ==
    \/ MatchCall(Names)
    \/ GenerateCandidates
    \/ SolveCall
    \/ SolveBegin
    \/ SolveStep
    \/ SolveReturn
    \/ Aggregate
    \/ ApiRespond
    \/ LabelCall
    \/ PairScoreCall
    \/ InitialsCall
    \/ Release

Spec == Init /\ [][Next]_vars

NextHistory ==
    \/ MatchCall(HistoryNames)
    \/ GenerateCandidates
    \/ SolveBegin
    \/ SolveStep
    \/ Aggregate
    \/ Remember
    \/ Release

SpecHistory == Init /\ [][NextHistory]_vars

(***************************************************************************)
(* Properties                                                              *)
(***************************************************************************)
Returned == pc \in {"done", "responded"}

TextOf(unit) == unit.segment.original_text

Tokens(name) == extract_alpha_tokens(normalize_text(name))

RowlingText == <<"R", "o", "w", "l", "i", "n", "g">>

OneToOne(ms) ==
    \A i, j \in DOMAIN ms :
        i # j => /\ ms[i].target_segment.id # ms[j].target_segment.id
                 /\ ms[i].reference_segment.id # ms[j].reference_segment.id

\* C1: the matches the solver has selected, and the matches returned by the
\* solver or by match(), never hold the same target segment instance twice
\* nor the same reference segment instance twice.
C1_Exclusive ==
    /\ OneToOne(matches)
    /\ pc \in {"done", "responded", "solved"} => OneToOne(result.Matches)

\* the solver returned two matches and turned down a candidate
C1_Witness ==
    /\ pc = "solved"
    /\ Len(result.Matches) = 2
    /\ Len(candidates) > 2

RAbs(a) == IF a[1] < 0 THEN <<-a[1], a[2]>> ELSE a

RNeg(a) == <<-a[1], a[2]>>

\* C2: the returned score is the sum of the top-N accepted scores (times
\* 100, in descending order) divided by N, rounded to 2 decimals, N being
\* the number of target units (name segments plus joined initials) and not
\* the number of matches; it is 0 when N = 0, and a target unit left
\* unmatched keeps the score below 100.
C2_ScoreOverTargetUnits ==
    Returned =>
        LET data == process_name(target_name)
            N == Len(data.NS) + Len(data.NI[1])
            ms == result.Matches
            top == result.AllScores
        IN  /\ result.N = N
            /\ Len(top) = Min(N, Len(ms))
            /\ \A i \in DOMAIN top : top[i] = RMul(ms[i].score, <<100, 1>>)
            /\ \A i, j \in DOMAIN top : i < j => RLeq(top[j], top[i])
            /\ N = 0 => result.F1 = RZero
            /\ N > 0 =>
                  /\ RLeq(RAbs(RAdd(result.F1, RNeg(RDivInt(SumSeq(top), N)))),
                          <<1, 200>>)
                  /\ result.F1[2] \in {1, 2, 4, 5, 10, 20, 25, 50, 100}
            /\ Len(ms) < N => RLess(result.F1, <<100, 1>>)

\* two target units, one of them matched
C2_Witness ==
    /\ pc = "done"
    /\ result.N = 2
    /\ Len(result.Matches) = 1
    /\ RLess(RZero, result.F1)

C4_NoLetters ==
    (Returned /\ (Tokens(target_name) = <<>> \/ Tokens(reference_name) = <<>>)) =>
        /\ result.F1 # ZeroDivisionError
        /\ result.F1 = RZero
        /\ result.Matches = <<>>

\* a target of digits and punctuation against a name with letters
C4_Witness ==
    /\ pc = "done"
    /\ target_name = PunctName
    /\ reference_name = JohnSmith

\* the bands of the labeler: lo < s <= hi, the lower end closed where lc and
\* the upper end open where ho
Bands ==
    { [lo |-> 0, lc |-> TRUE, hi |-> 30, ho |-> FALSE, name |-> "Names Do Not Match"],
      [lo |-> 30, lc |-> FALSE, hi |-> 60, ho |-> FALSE, name |-> "Weak Match"],
      [lo |-> 60, lc |-> FALSE, hi |-> 75, ho |-> FALSE, name |-> "Slightly Similar"],
      [lo |-> 75, lc |-> FALSE, hi |-> 88, ho |-> FALSE, name |-> "Somewhat Similar"],
      [lo |-> 88, lc |-> FALSE, hi |-> 94, ho |-> FALSE, name |-> "Highly Similar"],
      [lo |-> 94, lc |-> FALSE, hi |-> 100, ho |-> TRUE, name |-> "Almost Identical"],
      [lo |-> 100, lc |-> TRUE, hi |-> 100, ho |-> FALSE, name |-> "Identical Name"] }

\* s = n / d lies in band b, by integer comparison
InBand(s, b) ==
    /\ IF b.lc THEN b.lo * s[2] <= s[1] ELSE b.lo * s[2] < s[1]
    /\ IF b.ho THEN s[1] < b.hi * s[2] ELSE s[1] <= b.hi * s[2]

C6_Deterministic ==
    (pc = "done" /\ remembered.kept /\ remembered.Target = target_name
        /\ remembered.Reference = reference_name) =>
        Observable(result) = remembered.out

\* the same arguments again, after another invocation and under the other
\* allocator layout, with two candidates of equal score for one target
C6_Witness ==
    /\ pc = "done"
    /\ remembered.kept
    /\ remembered.between
    /\ remembered.Target = target_name
    /\ remembered.Reference = reference_name
    /\ remembered.heap_desc # heap_desc
    /\ target_name = JohnSmith
    /\ reference_name = JoanneJohn
    /\ Len(candidates) > Len(result.Matches)

BelowHundredLabels ==
    {"Names Do Not Match", "Weak Match", "Slightly Similar", "Somewhat Similar",
     "Highly Similar", "Almost Identical"}

\* C7: for two different variants of the alias set, each name is the single
\* name segment "Muhammad", the codes of the two are equal, the one selected
\* pair carries the weighting, and the score is below 100 with a label of a
\* band below 100.
C7_Alias ==
    (Returned /\ target_name \in AliasNames /\ reference_name \in AliasNames
        /\ target_name # reference_name) =>
        /\ Len(t_units) = 1 /\ Len(r_units) = 1
        /\ TextOf(t_units[1]) = STANDARD_MUHAMMAD /\ t_units[1].label = "[NS]"
        /\ TextOf(r_units[1]) = STANDARD_MUHAMMAD /\ r_units[1].label = "[NS]"
        /\ t_units[1].segment.primary_code = r_units[1].segment.primary_code
        /\ t_units[1].segment.secondary_code = r_units[1].segment.secondary_code
        /\ Len(result.Matches) = 1
        /\ result.Matches[1].match_type.weighted
        /\ RLess(result.F1, <<100, 1>>)
        /\ get_label(result.F1) \in BelowHundredLabels

C7_Witness ==
    /\ pc = "done"
    /\ target_name = Muhammad
    /\ reference_name = Md
    /\ result.Matches[1].score = <<149, 160>>

IsDoeDoe(m) ==
    /\ TextOf(m.target_segment) = Doe /\ m.target_segment.label = "[NS]"
    /\ TextOf(m.reference_segment) = Doe /\ m.reference_segment.label = "[NS]"

\* C8 as stated: in "John Doe" against "J Doe" the pairing of "Doe" with
\* "Doe" is selected with a pair score of 1.0.
C8_DoeFullScore ==
    (Returned /\ target_name = JohnDoe /\ reference_name = JDoe) =>
        \E i \in DOMAIN result.Matches :
            IsDoeDoe(result.Matches[i]) /\ result.Matches[i].score = ROne

\* C8, amended: the pairing of "Doe" with "Doe" is selected on a perfect
\* Primary-Primary code match, its pair score is the weighted
\* 0.85 + 0.15 * JaroWinkler("johndoe", "jdoe") = 263/280, below 1.0; and in
\* every invocation a selected pair scores 1.0 only if the two full names
\* are equal once lower-cased and stripped of spaces.
C8_DoeWeighted ==
    /\ (Returned /\ target_name = JohnDoe /\ reference_name = JDoe) =>
          \E i \in DOMAIN result.Matches :
              /\ IsDoeDoe(result.Matches[i])
              /\ result.Matches[i].match_type.combination = "Primary-Primary"
              /\ result.Matches[i].match_type.weighted
              /\ result.Matches[i].score = <<263, 280>>
              /\ RLess(result.Matches[i].score, ROne)
    /\ Returned =>
          \A i \in DOMAIN result.Matches :
              result.Matches[i].score = ROne =>
                  RemoveSpaces(normalize_text(target_name)) =
                      RemoveSpaces(normalize_text(reference_name))

C8_Witness ==
    /\ pc = "done"
    /\ target_name = JohnDoe
    /\ reference_name = JDoe
    /\ Len(result.Matches) = 2
    /\ IsDoeDoe(result.Matches[1])

\* C9 as stated: the target "JK Rowling" has the name segment "Rowling" and
\* the joined initials "JK" as its two units, and N = 2.
C9_JKInitials ==
    (Returned /\ target_name = JKRowling) =>
        /\ result.N = 2
        /\ \E i \in DOMAIN t_units :
              TextOf(t_units[i]) = RowlingText /\ t_units[i].label = "[NS]"
        /\ \E i \in DOMAIN t_units :
              TextOf(t_units[i]) = <<"J", "K">> /\ t_units[i].label = "[NI]"
        /\ \A i \in DOMAIN t_units :
              t_units[i].label = "[NS]" => TextOf(t_units[i]) = RowlingText

\* C10 as stated: "Abu Bakar" against "Abubakar" scores above 60.
C10_SpacingInvariance ==
    (Returned /\ target_name = AbuBakar /\ reference_name = Abubakar) =>
        RLess(<<60, 1>>, result.F1)


\* the invocation at hand has returned and is the kept one with its two
\* arguments exchanged
Swapped ==
    /\ pc = "done"
    /\ remembered.kept
    /\ remembered.Target = reference_name
    /\ remembered.Reference = target_name

\* the score the aggregation derives from the kept scores and a divisor
ScoreOver(all_scores, n) == Rat(RoundHalfEven(RDivInt(SumSeq(all_scores), n), 100), 100)

\* C11: match is not symmetric.  When match(A, B) and match(B, A) keep the
\* same non-empty list of pair scores and A and B have different unit
\* counts, the two final scores differ, and each is the same sum divided by
\* the unit count of its own first argument only.
C11_DivisorAsymmetry ==
    (/\ Swapped
     /\ Len(t_units) # Len(r_units)
     /\ result.AllScores = remembered.out.AllScores
     /\ result.AllScores # <<>>)
    => /\ result.F1 # remembered.out.F1
       /\ result.N = Len(t_units)
       /\ remembered.out.N = Len(r_units)
       /\ result.F1 = ScoreOver(result.AllScores, Len(t_units))
       /\ remembered.out.F1 = ScoreOver(result.AllScores, Len(r_units))

\* match("John", "John Smith") after match("John Smith", "John"): one unit
\* against two, the same single pair score, two different final scores
C11_Witness ==
    /\ Swapped
    /\ target_name = John
    /\ reference_name = JohnSmith
    /\ Len(t_units) = 1
    /\ Len(r_units) = 2
    /\ result.AllScores = remembered.out.AllScores
    /\ Len(result.AllScores) = 1
    /\ RLess(remembered.out.F1, result.F1)


\* the instances paired by the matches accepted so far
UsedTargets(ms) == {ms[i].target_segment.id : i \in DOMAIN ms}

UsedRefs(ms) == {ms[i].reference_segment.id : i \in DOMAIN ms}

NonIncreasing(seq) ==
    \A i, j \in DOMAIN seq : i < j => RLeq(seq[j].score, seq[i].score)

\* the candidates of one score, in the order they stand in
WithScore(cands, s) == SelectSeq(cands, LAMBDA c : c.score = s)

PositionOf(units, id) == CHOOSE i \in DOMAIN units : units[i].id = id

\* target units outer loop, reference units inner loop
InLoopOrder(cands, tu, ru) ==
    \A i, j \in DOMAIN cands :
        i < j => LET ti == PositionOf(tu, cands[i].t_seg.id)
                     tj == PositionOf(tu, cands[j].t_seg.id)
                     ri == PositionOf(ru, cands[i].r_seg.id)
                     rj == PositionOf(ru, cands[j].r_seg.id)
                 IN  ti < tj \/ (ti = tj /\ ri < rj)

\* match() hands the solver its candidates in loop order
GenerateStep ==
    (pc = "generate" /\ pc' = "solve") => InLoopOrder(candidates', t_units, r_units)

\* the sort puts the scores in descending order and leaves the candidates of
\* each score in the order they were handed over
SortStep ==
    (pc = "solve" /\ pc' = "scan")
    => /\ Len(candidates') = Len(candidates)
       /\ NonIncreasing(candidates')
       /\ \A k \in DOMAIN candidates :
             WithScore(candidates', candidates[k].score)
                 = WithScore(candidates, candidates[k].score)

\* one candidate is considered: none before it scored less, it is accepted
\* exactly when both its instances are unpaired, and a rejected one shares an
\* instance with an accepted match that scores at least as much
ScanStep ==
    (pc = "scan" /\ cursor' = cursor + 1)
    => LET cand == candidates[cursor]
           free == /\ cand.t_seg.id \notin UsedTargets(matches)
                   /\ cand.r_seg.id \notin UsedRefs(matches)
       IN  /\ \A j \in 1..(cursor - 1) : RLeq(cand.score, candidates[j].score)
           /\ free => matches' = Append(matches,
                                    [target_segment |-> cand.t_seg,
                                     reference_segment |-> cand.r_seg,
                                     score |-> cand.score,
                                     match_type |-> cand.match_type])
           /\ ~free => /\ matches' = matches
                       /\ \E i \in DOMAIN matches :
                             /\ \/ matches[i].target_segment.id = cand.t_seg.id
                                \/ matches[i].reference_segment.id = cand.r_seg.id
                             /\ RLeq(cand.score, matches[i].score)

\* C12: the solver considers the candidates in descending score order, equal
\* scores in the order they were generated (target units outer, reference
\* units inner); it accepts a candidate if and only if neither of its
\* instances is paired by an earlier accepted candidate; the matches are in
\* non-increasing score order and every rejected candidate shares an
\* instance with an accepted match of greater or equal score.
C12_GreedyOrder ==
    /\ []NonIncreasing(matches)
    /\ [][GenerateStep /\ SortStep /\ ScanStep]_vars

\* match() has scanned a list with two candidates of equal score and has
\* rejected one of them
C12_Witness ==
    /\ pc = "scan"
    /\ target_name # None
    /\ cursor > Len(candidates)
    /\ Len(matches) < Len(candidates)
    /\ \E i, j \in DOMAIN candidates :
          /\ i < j
          /\ candidates[i].score = candidates[j].score
          /\ candidates[i].t_seg.id = candidates[j].t_seg.id
          /\ PositionOf(r_units, candidates[i].r_seg.id)
                < PositionOf(r_units, candidates[j].r_seg.id)


\* the greatest of a finite set of rationals, 0 for the empty set
RMax(S) == IF S = {} THEN RZero ELSE CHOOSE x \in S : \A y \in S : RLeq(y, x)

\* the two codes a combination label stands for
CodesOf(t_seg, r_seg, lbl) ==
    CASE lbl = "Primary-Primary" -> <<t_seg.primary_code, r_seg.primary_code>>
      [] lbl = "Primary-Secondary" -> <<t_seg.primary_code, r_seg.secondary_code>>
      [] lbl = "Secondary-Primary" -> <<t_seg.secondary_code, r_seg.primary_code>>
      [] lbl = "Secondary-Secondary" -> <<t_seg.secondary_code, r_seg.secondary_code>>

SimOf(t_seg, r_seg, lbl) ==
    JaroWinkler(CodesOf(t_seg, r_seg, lbl)[1], CodesOf(t_seg, r_seg, lbl)[2])

\* the best code similarity of the pair a direct call was made on
BestSimilarity ==
    RMax({SimOf(call_args.t_seg, call_args.r_seg, lbl) : lbl \in result.compared})

\* a string lowercased with its spaces removed
LowerNoSpaces(str) == SelectSeq(Lower(str), LAMBDA ch : ch # " ")

BothFullNames ==
    /\ call_args.t_full_name \notin {None, EmptyName}
    /\ call_args.r_full_name \notin {None, EmptyName}

\* the literal similarity the perfect-match rule is said to use
LiteralSimilarity ==
    IF BothFullNames
    THEN JaroWinkler(LowerNoSpaces(call_args.t_full_name),
                     LowerNoSpaces(call_args.r_full_name))
    ELSE JaroWinkler(Lower(call_args.t_seg.original_text),
                     Lower(call_args.r_seg.original_text))

\* C13: when the best code similarity of a pair is exactly 1.0 the returned
\* score is 1.0 * 0.85 + literal_similarity * 0.15, the literal similarity
\* being that of the two full names lowercased without spaces when both are
\* supplied and that of the two segments' lowercased texts otherwise, and
\* the label records the weighting; below 1.0 the best similarity is
\* returned unchanged.
C13_PerfectMatchWeighting ==
    pc = "scored"
    => IF BestSimilarity = ROne
       THEN /\ result.score = RAdd(<<17, 20>>, RMul(LiteralSimilarity, <<3, 20>>))
            /\ result.match_type.weighted
            /\ result.match_type.shown = RoundHalfEven(result.score, 10000)
       ELSE /\ result.score = BestSimilarity
            /\ ~result.match_type.weighted

\* a perfect code match of "John" and "Joanne" with only one full name
\* supplied, weighted by the similarity of "john" and "joanne"
C13_Witness ==
    /\ pc = "scored"
    /\ call_args.t_seg.original_text = John
    /\ call_args.r_seg.original_text = Joanne
    /\ call_args.t_full_name = None
    /\ call_args.r_full_name = JDoe
    /\ BestSimilarity = ROne
    /\ result.match_type.weighted
    /\ RLess(result.score, ROne)
    /\ result.score = RAdd(<<17, 20>>,
                           RMul(JaroWinkler(<<"j","o","h","n">>,
                                            <<"j","o","a","n","n","e">>), <<3, 20>>))


CombinationLabels ==
    {"Primary-Primary", "Primary-Secondary", "Secondary-Primary", "Secondary-Secondary"}

\* the combinations neither of whose codes is absent
PresentCombinations(t_seg, r_seg) ==
    {lbl \in CombinationLabels :
        /\ CodesOf(t_seg, r_seg, lbl)[1] # None
        /\ CodesOf(t_seg, r_seg, lbl)[2] # None}

\* C14: an empty-string primary code is kept by the encoder and is not
\* treated as absent: the scorer skips a combination only when one of its
\* two codes is absent (a missing secondary code), so the combinations it
\* compares are exactly those whose two codes are both present, the ones
\* with an empty-string primary code included.
C14_EmptyPrimaryCompared ==
    pc = "scored"
    => /\ call_args.t_seg.primary_code # None
       /\ call_args.r_seg.primary_code # None
       /\ result.compared = PresentCombinations(call_args.t_seg, call_args.r_seg)


LabelOrder ==
    <<"Primary-Primary", "Primary-Secondary", "Secondary-Primary", "Secondary-Secondary">>

\* the best similarity as it stood before the perfect-match weighting
BestBeforeWeighting == IF result.match_type.weighted THEN ROne ELSE result.score

\* the first compared combination, in the order of the loop, that attains
\* the best similarity
FirstAttaining ==
    LET ks == {k \in 1..4 :
                 /\ LabelOrder[k] \in result.compared
                 /\ SimOf(call_args.t_seg, call_args.r_seg, LabelOrder[k]) = BestSimilarity}
    IN  LabelOrder[CHOOSE k \in ks : \A j \in ks : k <= j]

\* C15 as stated: before any weighting the scorer keeps the maximum
\* similarity over the compared combinations and tags it with the first
\* combination, in the order Primary-Primary, Primary-Secondary,
\* Secondary-Primary, Secondary-Secondary, that attains it; it returns
\* (0.0, "None") when no combination is comparable.
C15_TagOfMaximum ==
    pc = "scored"
    => /\ BestBeforeWeighting = BestSimilarity
       /\ IF result.compared = {}
          THEN result.score = RZero /\ result.match_type.combination = "None"
          ELSE result.match_type.combination = FirstAttaining

\* C15: before any weighting the scorer keeps the maximum similarity over
\* the compared combinations; a maximum above 0 is tagged with the first
\* combination, in the order Primary-Primary, Primary-Secondary,
\* Secondary-Primary, Secondary-Secondary, that attains it; when no
\* combination is comparable or every compared one has similarity 0 it
\* returns (0.0, "None").
C15_TagOfPositiveMaximum ==
    pc = "scored"
    => /\ BestBeforeWeighting = BestSimilarity
       /\ IF BestSimilarity = RZero
          THEN result.score = RZero /\ result.match_type.combination = "None"
          ELSE result.match_type.combination = FirstAttaining

\* "John" against "Joanne": Primary-Primary (JN, JN) and Secondary-Secondary
\* (AN, AN) both reach 1.0, and Primary-Primary is reported
C15_Witness ==
    /\ pc = "scored"
    /\ call_args.t_seg.original_text = John
    /\ call_args.r_seg.original_text = Joanne
    /\ SimOf(call_args.t_seg, call_args.r_seg, "Primary-Primary") = ROne
    /\ SimOf(call_args.t_seg, call_args.r_seg, "Secondary-Secondary") = ROne
    /\ result.compared = CombinationLabels
    /\ result.match_type.combination = "Primary-Primary"


\* tokens i..j are a maximal run of consecutive length-1 tokens
IsRun(tokens, i, j) ==
    /\ i <= j
    /\ \A k \in i..j : Len(tokens[k]) = 1
    /\ i = 1 \/ Len(tokens[i - 1]) # 1
    /\ j = Len(tokens) \/ Len(tokens[j + 1]) # 1

RunStarts(tokens) ==
    {i \in DOMAIN tokens : \E j \in DOMAIN tokens : IsRun(tokens, i, j)}

RunEnd(tokens, i) == CHOOSE j \in DOMAIN tokens : IsRun(tokens, i, j)

\* the run starting at token i, uppercased and concatenated
RunText(tokens, i) ==
    [k \in 1..(RunEnd(tokens, i) - i + 1) |-> UpperCh(tokens[i + k - 1][1])]

\* where the first run reading `text` starts
FirstStart(tokens, text) ==
    LET at == {i \in RunStarts(tokens) : RunText(tokens, i) = text}
    IN  CHOOSE i \in at : \A j \in at : i <= j

\* C16: the joined-initials list of a token sequence is the sequence of its
\* maximal runs of consecutive length-1 tokens, each uppercased and
\* concatenated, later duplicates removed and first-occurrence order kept;
\* a token of any other length ends the run, a run open at the end of the
\* tokens is emitted, and the initials are exactly the length-1 tokens.
C16_JoinedRuns ==
    pc = "initialled"
    => LET tokens == call_args.tokens
           joined == result.joined
       IN  /\ {joined[a] : a \in DOMAIN joined}
                 = {RunText(tokens, i) : i \in RunStarts(tokens)}
           /\ \A a, b \in DOMAIN joined :
                 a < b => /\ joined[a] # joined[b]
                          /\ FirstStart(tokens, joined[a]) < FirstStart(tokens, joined[b])
           /\ {result.individual[a] : a \in DOMAIN result.individual}
                 = {Upper(tokens[k]) : k \in {i \in DOMAIN tokens : Len(tokens[i]) = 1}}

\* "a b cd a b": the run "AB" ended by "cd", the run "AB" open at the end,
\* the second one removed as a duplicate
C16_Witness ==
    /\ pc = "initialled"
    /\ call_args.tokens = << <<"a">>, <<"b">>, <<"c","d">>, <<"a">>, <<"b">> >>
    /\ result.joined = << <<"A","B">> >>


MinUnits == Min(Len(t_units), Len(r_units))

\* every accepted score, as a percentage, in descending order
AcceptedScores ==
    SortDesc([i \in DOMAIN result.Matches |->
                 RMul(result.Matches[i].score, <<SCORE_MULTIPLIER, 1>>)])

\* the average before it is rounded to two decimals
UnroundedScore ==
    IF Len(t_units) > 0 THEN RDivInt(SumSeq(result.AllScores), Len(t_units)) ELSE RZero

====
